---- MODULE Spec2Model ----
(***************************************************************************)
(* CLEDR liturgical calendar: Computus, season resolution, precedence      *)
(* resolution and fragment path generation, modelled from                  *)
(* calendar/src/computus.ts, calendar.ts, fragments.ts and types.ts.       *)
(*                                                                         *)
(* A Date is modelled by its time value counted in hours; the host clock   *)
(* of this development has no daylight-saving shift, so the local calendar *)
(* day of a Date is its time value divided by 24.  Day 0 is 0000-03-01 of  *)
(* the proleptic Gregorian calendar, which keeps every value positive.     *)
(***************************************************************************)
EXTENDS Integers, Sequences, FiniteSets, TLC

VARIABLES
    annus,   \* the year argument of the call under study
    date,    \* the Date value handed to the resolver
    via,     \* how that Date was built (which constructor or feast function)
    op,      \* the operation last applied to the Date
    hora,    \* the liturgical hour argument of getFragmentNames
    res      \* the value the operation returned

vars == <<annus, date, via, op, hora, res>>

-----------------------------------------------------------------------------
(* Bounds of the model and documented program constants.                   *)

\* Documented domain of computusPaschalis.
AnnusMin == 1583
AnnusMax == 2499

\* Window of years whose every calendar day is resolved.
AnnusPrimus == 2016
AnnusUltimus == 2038

AnniComputi == AnnusMin..AnnusMax
Anni == AnnusPrimus..AnnusUltimus

-----------------------------------------------------------------------------
(* The host Date object.                                                   *)

HoraeDiei == 24

\* Days from 0000-03-01 to the civil date (y, month index 0..11, day);
\* a day beyond the end of the month runs on into the next month.
DaysFromMarch(yy, mp, d) ==
    LET era == yy \div 400
        yoe == yy - era * 400
        doy == ((153 * mp + 2) \div 5) + d - 1
        doe == yoe * 365 + (yoe \div 4) - (yoe \div 100) + doy
    IN  era * 146097 + doe

DaysFromCivil(y, mIdx, d) ==
    DaysFromMarch(IF mIdx + 1 <= 2 THEN y - 1 ELSE y,
                  IF mIdx + 1 > 2 THEN mIdx + 1 - 3 ELSE mIdx + 1 + 9, d)

\* The civil date [y, m (0..11), d] of a day number, from the day of the
\* era, the year of the era and the day of the (March-based) year.
CivilFromDoy(era, yoe, doy) ==
    LET mp == (5 * doy + 2) \div 153
        d  == doy - ((153 * mp + 2) \div 5) + 1
        m  == IF mp < 10 THEN mp + 3 ELSE mp - 9
        y  == yoe + era * 400 + (IF m <= 2 THEN 1 ELSE 0)
    IN  [y |-> y, m |-> m - 1, d |-> d]

CivilFromDoe(era, doe, yoe) ==
    CivilFromDoy(era, yoe, doe - (365 * yoe + (yoe \div 4) - (yoe \div 100)))

CivilFromEra(era, doe) ==
    CivilFromDoe(era, doe,
                 (doe - (doe \div 1460) + (doe \div 36524) - (doe \div 146096)) \div 365)

CivilFromDays(z) == CivilFromEra(z \div 146097, z - (z \div 146097) * 146097)

\* new Date(y, monthIndex, day): local midnight of that day.
NewDate(y, mIdx, d) == HoraeDiei * DaysFromCivil(y, mIdx, d)

getTime(dt) == dt
LocalDay(dt) == dt \div HoraeDiei
getFullYear(dt) == CivilFromDays(LocalDay(dt)).y
getMonth(dt) == CivilFromDays(LocalDay(dt)).m
getDate(dt) == CivilFromDays(LocalDay(dt)).d
\* 0 = Sunday .. 6 = Saturday
getDay(dt) == (LocalDay(dt) + 3) % 7

-----------------------------------------------------------------------------
(* computus.ts: helper functions.                                          *)

\* result.setDate(result.getDate() + dies): same time of day, dies days on.
addDies(dt, dies) == dt + HoraeDiei * dies

proximaDominica(dt) ==
    LET dayOfWeek == getDay(dt)
    IN  IF dayOfWeek = 0 THEN dt ELSE addDies(dt, 7 - dayOfWeek)

\* Math.floor((date2.getTime() - date1.getTime()) / oneDay)
diesInter(date1, date2) == (getTime(date2) - getTime(date1)) \div HoraeDiei

\* Math.round((a.getTime() - b.getTime()) / oneDay), halves rounded up
roundDies(a, b) == (2 * (getTime(a) - getTime(b)) + HoraeDiei) \div (2 * HoraeDiei)

estDominica(dt) == getDay(dt) = 0

diesHebdomadae(dt) == getDay(dt)

idemDies(date1, date2) ==
    /\ getFullYear(date1) = getFullYear(date2)
    /\ getMonth(date1) = getMonth(date2)
    /\ getDate(date1) = getDate(date2)

-----------------------------------------------------------------------------
(* computus.ts: Easter and the moveable feasts.                            *)

centuryMQ(a) ==
    IF a >= 1583 /\ a <= 1699 THEN <<22, 2>>
    ELSE IF a >= 1700 /\ a <= 1799 THEN <<23, 3>>
    ELSE IF a >= 1800 /\ a <= 1899 THEN <<23, 4>>
    ELSE IF a >= 1900 /\ a <= 2099 THEN <<24, 5>>
    ELSE IF a >= 2100 /\ a <= 2199 THEN <<24, 6>>
    ELSE IF a >= 2200 /\ a <= 2299 THEN <<25, 0>>
    ELSE IF a >= 2300 /\ a <= 2399 THEN <<26, 1>>
    ELSE IF a >= 2400 /\ a <= 2499 THEN <<25, 1>>
    ELSE <<24, 5>>

\* The day count f = 22 + d + e read as a date: March f, or April f - 31.
diesPaschae(y, f) == IF f > 31 THEN NewDate(y, 3, f - 31) ELSE NewDate(y, 2, f)

computusGaussianus(y, m, q) ==
    LET a == y % 19
        b == y % 4
        c == y % 7
        d == (19 * a + m) % 30
        e == (2 * b + 4 * c + 6 * d + q) % 7
    IN  diesPaschae(y, 22 + d + e)

computusPaschalis(y) == computusGaussianus(y, centuryMQ(y)[1], centuryMQ(y)[2])

pascha(y) == computusPaschalis(y)

pentecostes(y) == addDies(pascha(y), 49)

\* ascensio that ignores the flag
ascensioSineDominica(y, inDominica) == addDies(pascha(y), 39)

ascensio(y, inDominica) ==
    LET dt == addDies(pascha(y), 39)
    IN  IF inDominica THEN proximaDominica(dt) ELSE dt

trinitas(y) == addDies(pascha(y), 56)

corpusChristi(y, inDominica) ==
    LET dt == addDies(pascha(y), 60)
    IN  IF inDominica THEN proximaDominica(dt) ELSE dt

corIesu(y) == addDies(pascha(y), 68)

corImmaculatumBMV(y) == addDies(pascha(y), 69)

mariaMaterEcclesiae(y) == addDies(pascha(y), 50)

feriaIVCinerum(y) == addDies(pascha(y), -46)

dominicaInPalmis(y) == addDies(pascha(y), -7)

feriaVInCenaDomini(y) == addDies(pascha(y), -3)

feriaVIInPassioneDomini(y) == addDies(pascha(y), -2)

sabbatumSanctum(y) == addDies(pascha(y), -1)

dominicaInOctavaPaschae(y) == addDies(pascha(y), 7)

\* dominicaIAdventus with Sunday counted as 0
dominicaIAdventusSineSeptem(y) == addDies(NewDate(y, 11, 25), -(21 + getDay(NewDate(y, 11, 25))))

dominicaIAdventus(y) ==
    LET natale == NewDate(y, 11, 25)
        dh == IF getDay(natale) = 0 THEN 7 ELSE getDay(natale)
        daysBack == 21 + dh
    IN  addDies(natale, -daysBack)

christusRex(y) == addDies(dominicaIAdventus(y), -7)

nativitas(y) == NewDate(y, 11, 25)

epiphania(y, fixedDate) ==
    IF fixedDate THEN NewDate(y, 0, 6) ELSE proximaDominica(NewDate(y, 0, 2))

\* baptismaDomini calls epiphania(annus) with the default fixedDate = true
baptismaDomini(y) ==
    LET epiphaniaDate == epiphania(y, TRUE)
    IN  IF getDate(epiphaniaDate) >= 7
        THEN addDies(epiphaniaDate, 1)
        ELSE proximaDominica(addDies(epiphaniaDate, 1))

-----------------------------------------------------------------------------
(* computus.ts: the liturgical season of a Date.                           *)

\* tempusInter with the Triduum closed one day early (Easter Sunday left out).
tempusInterTriduumBreve(dt, month, adventus1, natale, baptisma, cinerum, cenaDomini, paschaDomini, pentecostesDate) ==
    IF dt >= adventus1 /\ dt < natale THEN "ADVENTUS"
    ELSE IF /\ (dt >= natale \/ dt < baptisma)
            /\ \/ (month = 0 /\ dt < baptisma)
               \/ (month = 11 /\ dt >= natale)
         THEN "NATIVITAS"
    ELSE IF dt >= cinerum /\ dt < cenaDomini THEN "QUADRAGESIMA"
    ELSE IF dt >= cenaDomini /\ dt < paschaDomini THEN "TRIDUUM"
    ELSE IF dt > paschaDomini /\ dt <= pentecostesDate THEN "PASCHALE"
    ELSE "ORDINARIUM"

\* tempusInter with the Christmas season closed one day late (the Baptism
\* of the Lord counted in).
tempusInterBaptismaInclusum(dt, month, adventus1, natale, baptisma, cinerum, cenaDomini, paschaDomini, pentecostesDate) ==
    IF dt >= adventus1 /\ dt < natale THEN "ADVENTUS"
    ELSE IF /\ (dt >= natale \/ dt <= baptisma)
            /\ \/ (month = 0 /\ dt <= baptisma)
               \/ (month = 11 /\ dt >= natale)
         THEN "NATIVITAS"
    ELSE IF dt >= cinerum /\ dt < cenaDomini THEN "QUADRAGESIMA"
    ELSE IF dt >= cenaDomini /\ dt <= paschaDomini THEN "TRIDUUM"
    ELSE IF dt > paschaDomini /\ dt <= pentecostesDate THEN "PASCHALE"
    ELSE "ORDINARIUM"

\* tempusInter without the January days of the Christmas season.
tempusInterSineIanuario(dt, month, adventus1, natale, baptisma, cinerum, cenaDomini, paschaDomini, pentecostesDate) ==
    IF dt >= adventus1 /\ dt < natale THEN "ADVENTUS"
    ELSE IF month = 11 /\ dt >= natale THEN "NATIVITAS"
    ELSE IF dt >= cinerum /\ dt < cenaDomini THEN "QUADRAGESIMA"
    ELSE IF dt >= cenaDomini /\ dt <= paschaDomini THEN "TRIDUUM"
    ELSE IF dt > paschaDomini /\ dt <= pentecostesDate THEN "PASCHALE"
    ELSE "ORDINARIUM"

\* The season of a Date against the milestones of its civil year.
tempusInter(dt, month, adventus1, natale, baptisma, cinerum, cenaDomini, paschaDomini, pentecostesDate) ==
    IF dt >= adventus1 /\ dt < natale THEN "ADVENTUS"
    ELSE IF /\ (dt >= natale \/ dt < baptisma)
            /\ \/ (month = 0 /\ dt < baptisma)
               \/ (month = 11 /\ dt >= natale)
         THEN "NATIVITAS"
    ELSE IF dt >= cinerum /\ dt < cenaDomini THEN "QUADRAGESIMA"
    ELSE IF dt >= cenaDomini /\ dt <= paschaDomini THEN "TRIDUUM"
    ELSE IF dt > paschaDomini /\ dt <= pentecostesDate THEN "PASCHALE"
    ELSE "ORDINARIUM"

\* const annus = date.getFullYear(), then the seven milestones of that year
tempusAnni(dt, y) ==
    tempusInter(dt, getMonth(dt), dominicaIAdventus(y), nativitas(y), baptismaDomini(y),
                feriaIVCinerum(y), feriaVInCenaDomini(y), pascha(y), pentecostes(y))

tempus(dt) == tempusAnni(dt, getFullYear(dt))

Tempora == {"ORDINARIUM", "ADVENTUS", "NATIVITAS", "QUADRAGESIMA", "TRIDUUM", "PASCHALE"}

-----------------------------------------------------------------------------
(* computus.ts: week numbers and lectionary cycles.                        *)

\* hebdomadaInTempore whose weeks after Pentecost are numbered one short.
hebdomadaInTemporeSineUno(dt, y, currentTempus) ==
    CASE currentTempus = "ADVENTUS" ->
            (diesInter(dominicaIAdventus(y), dt) \div 7) + 1
      [] currentTempus = "NATIVITAS" ->
            (diesInter(nativitas(IF getMonth(dt) >= 11 THEN y ELSE y - 1), dt) \div 7) + 1
      [] currentTempus = "QUADRAGESIMA" ->
            LET daysFromAshWed == diesInter(feriaIVCinerum(y), dt)
            IN  IF daysFromAshWed < 4 THEN 0 ELSE (daysFromAshWed + 3) \div 7
      [] currentTempus = "TRIDUUM" -> 0
      [] currentTempus = "PASCHALE" ->
            (diesInter(pascha(y), dt) \div 7) + 1
      [] OTHER ->
            IF dt < feriaIVCinerum(y)
            THEN (diesInter(baptismaDomini(y), dt) \div 7) + 1
            ELSE LET totalWeeksAfterPentecost ==
                         diesInter(pentecostes(y), dominicaIAdventus(y)) \div 7
                     weeksFromPentecost == diesInter(pentecostes(y), dt) \div 7
                 IN  34 - totalWeeksAfterPentecost + weeksFromPentecost

\* hebdomadaInTempore whose Christmas weeks are counted from December 25 of
\* the civil year of the Date, in January too.
hebdomadaInTemporeAnniCivilis(dt, y, currentTempus) ==
    CASE currentTempus = "ADVENTUS" ->
            (diesInter(dominicaIAdventus(y), dt) \div 7) + 1
      [] currentTempus = "NATIVITAS" ->
            (diesInter(nativitas(y), dt) \div 7) + 1
      [] currentTempus = "QUADRAGESIMA" ->
            LET daysFromAshWed == diesInter(feriaIVCinerum(y), dt)
            IN  IF daysFromAshWed < 4 THEN 0 ELSE (daysFromAshWed + 3) \div 7
      [] currentTempus = "TRIDUUM" -> 0
      [] currentTempus = "PASCHALE" ->
            (diesInter(pascha(y), dt) \div 7) + 1
      [] OTHER ->
            IF dt < feriaIVCinerum(y)
            THEN (diesInter(baptismaDomini(y), dt) \div 7) + 1
            ELSE LET totalWeeksAfterPentecost ==
                         diesInter(pentecostes(y), dominicaIAdventus(y)) \div 7
                     weeksFromPentecost == diesInter(pentecostes(y), dt) \div 7
                 IN  34 - totalWeeksAfterPentecost + weeksFromPentecost + 1

\* The week within the season, for the year and season of the Date.
hebdomadaInTempore(dt, y, currentTempus) ==
    CASE currentTempus = "ADVENTUS" ->
            (diesInter(dominicaIAdventus(y), dt) \div 7) + 1
      [] currentTempus = "NATIVITAS" ->
            (diesInter(nativitas(IF getMonth(dt) >= 11 THEN y ELSE y - 1), dt) \div 7) + 1
      [] currentTempus = "QUADRAGESIMA" ->
            LET daysFromAshWed == diesInter(feriaIVCinerum(y), dt)
            IN  IF daysFromAshWed < 4 THEN 0 ELSE (daysFromAshWed + 3) \div 7
      [] currentTempus = "TRIDUUM" -> 0
      [] currentTempus = "PASCHALE" ->
            (diesInter(pascha(y), dt) \div 7) + 1
      [] OTHER ->
            IF dt < feriaIVCinerum(y)
            THEN (diesInter(baptismaDomini(y), dt) \div 7) + 1
            ELSE LET totalWeeksAfterPentecost ==
                         diesInter(pentecostes(y), dominicaIAdventus(y)) \div 7
                     weeksFromPentecost == diesInter(pentecostes(y), dt) \div 7
                 IN  34 - totalWeeksAfterPentecost + weeksFromPentecost + 1

hebdomadaTemporis(dt) == hebdomadaInTempore(dt, getFullYear(dt), tempus(dt))

\* the remainder kept as it is, 0 included
psalteriiHebdomadaNulla(week) == week

\* week === 0 ? 4 : week
psalteriiHebdomada(week) == IF week = 0 THEN 4 ELSE week

hebdomadaPsalterii(dt) == psalteriiHebdomada(hebdomadaTemporis(dt) % 4)

\* a liturgical year that never begins before January 1
estNovusAnnusLiturgicusNunquam(dt) == FALSE

estNovusAnnusLiturgicus(dt) == dt >= dominicaIAdventus(getFullYear(dt))

cyclusAnni(cyclus) == IF cyclus = 0 THEN "A" ELSE IF cyclus = 1 THEN "B" ELSE "C"

cyclusDominicalis(dt) ==
    cyclusAnni((IF estNovusAnnusLiturgicus(dt) THEN getFullYear(dt)
                ELSE getFullYear(dt) - 1) % 3)

cyclusFerialis(dt) ==
    LET y == IF estNovusAnnusLiturgicus(dt) THEN getFullYear(dt) + 1 ELSE getFullYear(dt)
    IN  IF y % 2 = 1 THEN "I" ELSE "II"

-----------------------------------------------------------------------------
(* types.ts: code tables.                                                  *)

TempusCodes(t) ==
    CASE t = "ORDINARIUM" -> "ORD"
      [] t = "ADVENTUS" -> "ADV"
      [] t = "NATIVITAS" -> "NAT"
      [] t = "QUADRAGESIMA" -> "QUA"
      [] t = "TRIDUUM" -> "TRI"
      [] t = "PASCHALE" -> "PAS"

DiesCodes(d) ==
    CASE d = 0 -> "1DOM"
      [] d = 1 -> "2LUN"
      [] d = 2 -> "3MAR"
      [] d = 3 -> "4MER"
      [] d = 4 -> "5IOV"
      [] d = 5 -> "6VEN"
      [] d = 6 -> "7SAB"

PraecedentiaValue(p) ==
    CASE p = "TRIDUUM_1" -> 100
      [] p = "SOLLEMNITAS_DOMINI_IN_CALENDARIO_2" -> 200
      [] p = "DOMINICA_PRIVILEGIATA_2" -> 201
      [] p = "FERIA_IV_CINERUM_2" -> 202
      [] p = "FERIA_HEBDOMADAE_SANCTAE_2" -> 203
      [] p = "DIES_OCTAVAE_PASCHAE_2" -> 204
      [] p = "SOLLEMNITAS_GENERALIS_3" -> 300
      [] p = "SOLLEMNITAS_PROPRIA_PATRONI_4A" -> 400
      [] p = "SOLLEMNITAS_DEDICATIONIS_4B" -> 401
      [] p = "SOLLEMNITAS_TITULI_4C" -> 402
      [] p = "FESTUM_DOMINI_5" -> 500
      [] p = "DOMINICA_NATIVITATIS_6" -> 600
      [] p = "DOMINICA_ORDINARII_6" -> 601
      [] p = "FESTUM_BMV_7" -> 700
      [] p = "FESTUM_SANCTORUM_7" -> 701
      [] p = "FESTUM_PROPRIUM_8" -> 800
      [] p = "FERIA_ADVENTUS_17_24_9" -> 900
      [] p = "DIES_OCTAVAE_NATIVITATIS_9" -> 901
      [] p = "FERIA_QUADRAGESIMAE_9" -> 902
      [] p = "MEMORIA_OBLIGATORIA_10" -> 1000
      [] p = "MEMORIA_OBLIGATORIA_PROPRIA_11" -> 1100
      [] p = "MEMORIA_AD_LIBITUM_12" -> 1200
      [] p = "FERIA_ADVENTUS_13" -> 1300
      [] p = "FERIA_NATIVITATIS_13" -> 1301
      [] p = "FERIA_PASCHAE_13" -> 1302
      [] p = "FERIA_ORDINARII_14" -> 1400

\* number.toString().padStart(2, '0')
\* toString() without the padding
padStart2Nullum(n) == ToString(n)

padStart2(n) == IF n >= 0 /\ n < 10 THEN "0" \o ToString(n) ELSE ToString(n)

\* string.toLowerCase() on the season names and season codes
toLowerCase(s) ==
    CASE s = "ORDINARIUM" -> "ordinarium"
      [] s = "ADVENTUS" -> "adventus"
      [] s = "NATIVITAS" -> "nativitas"
      [] s = "QUADRAGESIMA" -> "quadragesima"
      [] s = "TRIDUUM" -> "triduum"
      [] s = "PASCHALE" -> "paschale"
      [] s = "ORD" -> "ord"
      [] s = "ADV" -> "adv"
      [] s = "NAT" -> "nat"
      [] s = "QUA" -> "qua"
      [] s = "TRI" -> "tri"
      [] s = "PAS" -> "pas"

-----------------------------------------------------------------------------
(* temporale.ts and sanctorale.ts: the celebration listings.  A            *)
(* DiesSpecialis is a record; month and day are 0 where the listing leaves *)
(* them undefined.  A nullable DiesSpecialis is a sequence of length 0     *)
(* (null) or 1.  The entries the test suite attests are listed, with one   *)
(* optional memorial of July, where the tests expect optional memorials,   *)
(* and one obligatory memorial of the General Calendar in June.            *)

DiesTemporalis(id, shortCode, gradus, praecedentia) ==
    [id |-> id, code |-> shortCode, shortCode |-> shortCode,
     genus |-> "TEMPORALE", gradus |-> gradus, praecedentia |-> praecedentia,
     month |-> 0, day |-> 0]

DiesSanctoralis(id, month, day, gradus, praecedentia) ==
    [id |-> id, code |-> padStart2(month) \o padStart2(day),
     shortCode |-> padStart2(month) \o padStart2(day),
     genus |-> "SANCTORALE", gradus |-> gradus, praecedentia |-> praecedentia,
     month |-> month, day |-> day]

\* Moveable celebrations keyed by their signed day offset from Easter.
TEMPORALE(offset) ==
    CASE offset = -46 -> <<DiesTemporalis("ash_wednesday", "QUA0", "FERIA", "FERIA_IV_CINERUM_2")>>
      [] offset = -7 -> <<DiesTemporalis("palm_sunday", "QUA6", "SOLLEMNITAS", "DOMINICA_PRIVILEGIATA_2")>>
      [] offset = -6 -> <<DiesTemporalis("monday_of_holy_week", "QUA6F2", "FERIA", "FERIA_HEBDOMADAE_SANCTAE_2")>>
      [] offset = -5 -> <<DiesTemporalis("tuesday_of_holy_week", "QUA6F3", "FERIA", "FERIA_HEBDOMADAE_SANCTAE_2")>>
      [] offset = -4 -> <<DiesTemporalis("wednesday_of_holy_week", "QUA6F4", "FERIA", "FERIA_HEBDOMADAE_SANCTAE_2")>>
      [] offset = -3 -> <<DiesTemporalis("holy_thursday", "TRI1", "SOLLEMNITAS", "TRIDUUM_1")>>
      [] offset = -2 -> <<DiesTemporalis("good_friday", "TRI2", "SOLLEMNITAS", "TRIDUUM_1")>>
      [] offset = -1 -> <<DiesTemporalis("holy_saturday", "TRI3", "SOLLEMNITAS", "TRIDUUM_1")>>
      [] offset = 0 -> <<DiesTemporalis("easter_sunday", "PAS0", "SOLLEMNITAS", "TRIDUUM_1")>>
      [] offset = 1 -> <<DiesTemporalis("monday_of_easter_octave", "PAS1F2", "SOLLEMNITAS", "DIES_OCTAVAE_PASCHAE_2")>>
      [] offset = 2 -> <<DiesTemporalis("tuesday_of_easter_octave", "PAS1F3", "SOLLEMNITAS", "DIES_OCTAVAE_PASCHAE_2")>>
      [] offset = 3 -> <<DiesTemporalis("wednesday_of_easter_octave", "PAS1F4", "SOLLEMNITAS", "DIES_OCTAVAE_PASCHAE_2")>>
      [] offset = 4 -> <<DiesTemporalis("thursday_of_easter_octave", "PAS1F5", "SOLLEMNITAS", "DIES_OCTAVAE_PASCHAE_2")>>
      [] offset = 5 -> <<DiesTemporalis("friday_of_easter_octave", "PAS1F6", "SOLLEMNITAS", "DIES_OCTAVAE_PASCHAE_2")>>
      [] offset = 6 -> <<DiesTemporalis("saturday_of_easter_octave", "PAS1F7", "SOLLEMNITAS", "DIES_OCTAVAE_PASCHAE_2")>>
      [] offset = 7 -> <<DiesTemporalis("divine_mercy_sunday", "PAS2", "SOLLEMNITAS", "DIES_OCTAVAE_PASCHAE_2")>>
      [] offset = 42 -> <<DiesTemporalis("ascension", "ASC0", "SOLLEMNITAS", "SOLLEMNITAS_DOMINI_IN_CALENDARIO_2")>>
      [] offset = 49 -> <<DiesTemporalis("pentecost_sunday", "PEN0", "SOLLEMNITAS", "SOLLEMNITAS_DOMINI_IN_CALENDARIO_2")>>
      [] offset = 50 -> <<DiesTemporalis("mary_mother_of_the_church", "MME0", "MEMORIA", "MEMORIA_OBLIGATORIA_10")>>
      [] offset = 63 -> <<DiesTemporalis("corpus_christi", "COR0", "SOLLEMNITAS", "SOLLEMNITAS_DOMINI_IN_CALENDARIO_2")>>
      [] OTHER -> <<>>

\* Fixed celebrations keyed by month (1..12) and day.
SANCTORALE(month, day) ==
    CASE month = 1 /\ day = 1 -> <<DiesSanctoralis("mary_mother_of_god", 1, 1, "SOLLEMNITAS", "SOLLEMNITAS_GENERALIS_3")>>
      [] month = 1 /\ day = 6 -> <<DiesSanctoralis("epiphany", 1, 6, "SOLLEMNITAS", "SOLLEMNITAS_DOMINI_IN_CALENDARIO_2")>>
      [] month = 3 /\ day = 7 -> <<DiesSanctoralis("perpetua_and_felicity_martyrs", 3, 7, "MEMORIA", "MEMORIA_OBLIGATORIA_10")>>
      [] month = 3 /\ day = 17 -> <<DiesSanctoralis("patrick_bishop", 3, 17, "MEMORIA_AD_LIBITUM", "MEMORIA_AD_LIBITUM_12")>>
      [] month = 3 /\ day = 18 -> <<DiesSanctoralis("cyril_of_jerusalem_bishop_doctor", 3, 18, "MEMORIA_AD_LIBITUM", "MEMORIA_AD_LIBITUM_12")>>
      [] month = 3 /\ day = 19 -> <<DiesSanctoralis("joseph_spouse_of_mary", 3, 19, "SOLLEMNITAS", "SOLLEMNITAS_GENERALIS_3")>>
      [] month = 3 /\ day = 25 -> <<DiesSanctoralis("annunciation", 3, 25, "SOLLEMNITAS", "SOLLEMNITAS_DOMINI_IN_CALENDARIO_2")>>
      [] month = 6 /\ day = 1 -> <<DiesSanctoralis("justin_martyr", 6, 1, "MEMORIA", "MEMORIA_OBLIGATORIA_10")>>
      [] month = 6 /\ day = 24 -> <<DiesSanctoralis("nativity_of_john_the_baptist", 6, 24, "SOLLEMNITAS", "SOLLEMNITAS_GENERALIS_3")>>
      [] month = 6 /\ day = 29 -> <<DiesSanctoralis("peter_and_paul_apostles", 6, 29, "SOLLEMNITAS", "SOLLEMNITAS_GENERALIS_3")>>
      [] month = 7 /\ day = 13 -> <<DiesSanctoralis("henry", 7, 13, "MEMORIA_AD_LIBITUM", "MEMORIA_AD_LIBITUM_12")>>
      [] month = 8 /\ day = 15 -> <<DiesSanctoralis("assumption", 8, 15, "SOLLEMNITAS", "SOLLEMNITAS_GENERALIS_3")>>
      [] month = 11 /\ day = 1 -> <<DiesSanctoralis("all_saints", 11, 1, "SOLLEMNITAS", "SOLLEMNITAS_GENERALIS_3")>>
      [] month = 11 /\ day = 2 -> <<DiesSanctoralis("all_souls", 11, 2, "SOLLEMNITAS", "SOLLEMNITAS_GENERALIS_3")>>
      [] month = 12 /\ day = 8 -> <<DiesSanctoralis("immaculate_conception", 12, 8, "SOLLEMNITAS", "SOLLEMNITAS_GENERALIS_3")>>
      [] month = 12 /\ day = 25 -> <<DiesSanctoralis("christmas", 12, 25, "SOLLEMNITAS", "SOLLEMNITAS_DOMINI_IN_CALENDARIO_2")>>
      [] OTHER -> <<>>

findTemporale(dt) == TEMPORALE(diesInter(pascha(getFullYear(dt)), dt))

findTemporaleCelebration(dt) == findTemporale(dt)

\* the first entry of the day's fixed celebrations, or null
findSanctoraleCelebration(dt) == SANCTORALE(getMonth(dt) + 1, getDate(dt))

-----------------------------------------------------------------------------
(* calendar.ts: the calendar resolution engine.                            *)

\* Array.prototype.sort with the precedence comparator (a stable sort).
RECURSIVE sortByPraecedentia(_)
sortByPraecedentia(s) ==
    IF Len(s) <= 1 THEN s
    ELSE LET rest == sortByPraecedentia(Tail(s))
             x == Head(s)
             k == Cardinality({i \in 1..Len(rest) :
                      PraecedentiaValue(rest[i].praecedentia) < PraecedentiaValue(x.praecedentia)})
         IN  SubSeq(rest, 1, k) \o <<x>> \o SubSeq(rest, k + 1, Len(rest))

findCelebrations(dt) ==
    sortByPraecedentia(findTemporaleCelebration(dt) \o findSanctoraleCelebration(dt))

\* null is the empty sequence
resolvePrecedence(dt) ==
    LET celebrations == findCelebrations(dt)
    IN  IF Len(celebrations) > 0 THEN <<celebrations[1]>> ELSE <<>>

\* canCelebrate that never refuses
canCelebrateSemper(celebration, dt) == TRUE

\* The privileged days of the year y.
privilegedDays(y) ==
    {feriaIVCinerum(y), dominicaInPalmis(y), feriaVInCenaDomini(y),
     feriaVIInPassioneDomini(y), sabbatumSanctum(y), pascha(y)}

canCelebrateInTempore(celebration, dt, currentTempus) ==
    IF /\ celebration.gradus = "MEMORIA_AD_LIBITUM"
       /\ (currentTempus = "QUADRAGESIMA" \/ currentTempus = "ADVENTUS")
    THEN FALSE
    ELSE IF \E d \in privilegedDays(getFullYear(dt)) : idemDies(d, dt)
         THEN PraecedentiaValue(celebration.praecedentia) <= 204
         ELSE TRUE

canCelebrate(celebration, dt) == canCelebrateInTempore(celebration, dt, tempus(dt))

\* The precedence of a Sunday of the season.
dominicaPraecedentia(currentTempus) ==
    CASE currentTempus \in {"ADVENTUS", "QUADRAGESIMA", "PASCHALE"} ->
            "DOMINICA_PRIVILEGIATA_2"
      [] currentTempus = "NATIVITAS" -> "DOMINICA_NATIVITATIS_6"
      [] OTHER -> "DOMINICA_ORDINARII_6"

\* The precedence of a weekday of the season.
feriaPraecedentia(dt, currentTempus) ==
    CASE currentTempus = "TRIDUUM" -> "TRIDUUM_1"
      [] currentTempus = "QUADRAGESIMA" -> "FERIA_QUADRAGESIMAE_9"
      [] currentTempus = "ADVENTUS" ->
            IF getMonth(dt) = 11 /\ getDate(dt) >= 17
            THEN "FERIA_ADVENTUS_17_24_9" ELSE "FERIA_ADVENTUS_13"
      [] currentTempus = "NATIVITAS" ->
            IF getMonth(dt) = 11 /\ getDate(dt) >= 26 /\ getDate(dt) <= 31
            THEN "DIES_OCTAVAE_NATIVITATIS_9" ELSE "FERIA_NATIVITATIS_13"
      [] currentTempus = "PASCHALE" -> "FERIA_PASCHAE_13"
      [] OTHER -> "FERIA_ORDINARII_14"

feriaTemporis(dt, currentTempus, week, dayOfWeek, sunday) ==
    [id |-> toLowerCase(currentTempus) \o "/week-" \o ToString(week) \o "/" \o ToString(dayOfWeek),
     code |-> TempusCodes(currentTempus) \o padStart2(week) \o ToString(dayOfWeek),
     shortCode |-> TempusCodes(currentTempus) \o ToString(week),
     genus |-> "TEMPORALE",
     gradus |-> IF sunday THEN "SOLLEMNITAS" ELSE "FERIA",
     praecedentia |-> IF sunday THEN dominicaPraecedentia(currentTempus)
                      ELSE feriaPraecedentia(dt, currentTempus),
     month |-> 0, day |-> 0]

getFerial(dt) ==
    feriaTemporis(dt, tempus(dt), hebdomadaTemporis(dt), diesHebdomadae(dt), estDominica(dt))

buildLiturgicalDay(celebration, dt) ==
    [tempus |-> tempus(dt),
     hebdomada |-> hebdomadaTemporis(dt),
     hebdomadaPsalterii |-> hebdomadaPsalterii(dt),
     dies |-> diesHebdomadae(dt),
     cyclusDominicalis |-> cyclusDominicalis(dt),
     cyclusFerialis |-> cyclusFerialis(dt),
     gradus |-> celebration.gradus,
     praecedentia |-> celebration.praecedentia,
     genus |-> celebration.genus,
     id |-> celebration.id,
     shortCode |-> celebration.shortCode,
     titleCode |-> ""]

\* celebrations.map(c => buildLiturgicalDay(c, date))
buildLiturgicalDays(celebrations, dt) ==
    [i \in 1..Len(celebrations) |-> buildLiturgicalDay(celebrations[i], dt)]

\* allCelebrations.slice(1).filter(c => canCelebrate(c, date) && value < 1200)
commemorations(allCelebrations, dt) ==
    SelectSeq(SubSeq(allCelebrations, 2, Len(allCelebrations)),
              LAMBDA c : canCelebrate(c, dt) /\ PraecedentiaValue(c.praecedentia) < 1200)

\* allCelebrations.filter(c => c.gradus === MEMORIA_AD_LIBITUM && canCelebrate(c, date))
alternatives(allCelebrations, dt) ==
    SelectSeq(allCelebrations,
              LAMBDA c : c.gradus = "MEMORIA_AD_LIBITUM" /\ canCelebrate(c, dt))

\* The title code, and the short code of a day whose celebration has none.
titleCodeOf(tempusCode, week, dayOfWeek, cyclusDom, cyclusFer) ==
    "TIT;" \o tempusCode \o ";" \o ("ST" \o padStart2(week)) \o ";"
           \o DiesCodes(dayOfWeek) \o ";" \o ("Y-" \o cyclusDom \o cyclusFer)

shortCodeOf(primaryCelebration, tempusCode, week, dayOfWeek) ==
    IF primaryCelebration.shortCode # "" THEN primaryCelebration.shortCode
    ELSE toLowerCase(tempusCode) \o "/" \o padStart2(week) \o "/" \o ToString(dayOfWeek)

\* The returned DiesLiturgicus.  commemoratio and alternativae are the empty
\* sequence where the code leaves them undefined.
diesLiturgicus(currentTempus, week, psalterWeek, dayOfWeek, cyclusDom, cyclusFer, primaryCelebration, commemoratio, alternativae) ==
    [tempus |-> currentTempus,
     hebdomada |-> week,
     hebdomadaPsalterii |-> psalterWeek,
     dies |-> dayOfWeek,
     cyclusDominicalis |-> cyclusDom,
     cyclusFerialis |-> cyclusFer,
     gradus |-> primaryCelebration.gradus,
     praecedentia |-> primaryCelebration.praecedentia,
     genus |-> primaryCelebration.genus,
     id |-> primaryCelebration.id,
     shortCode |-> shortCodeOf(primaryCelebration, TempusCodes(currentTempus), week, dayOfWeek),
     titleCode |-> titleCodeOf(TempusCodes(currentTempus), week, dayOfWeek, cyclusDom, cyclusFer),
     commemoratio |-> commemoratio,
     alternativae |-> alternativae]

\* The primary celebration without the ferial fallback (an absent primary
\* has id "").
primaryCelebrationSineFeria(allCelebrations, dt) ==
    IF Len(allCelebrations) > 0 THEN allCelebrations[1]
    ELSE [id |-> "", code |-> "", shortCode |-> "", genus |-> "",
          gradus |-> "", praecedentia |-> "", month |-> 0, day |-> 0]

\* The primary celebration: the first listed one, or the weekday of the season.
primaryCelebration(allCelebrations, dt) ==
    IF Len(allCelebrations) > 0 THEN allCelebrations[1] ELSE getFerial(dt)

diesFromCelebrations(dt, allCelebrations) ==
    diesLiturgicus(tempus(dt), hebdomadaTemporis(dt), hebdomadaPsalterii(dt),
                   diesHebdomadae(dt), cyclusDominicalis(dt), cyclusFerialis(dt),
                   primaryCelebration(allCelebrations, dt),
                   buildLiturgicalDays(commemorations(allCelebrations, dt), dt),
                   buildLiturgicalDays(alternatives(allCelebrations, dt), dt))

getDiesLiturgicus(dt) == diesFromCelebrations(dt, findCelebrations(dt))

-----------------------------------------------------------------------------
(* fragments.ts: seasonal precedence and fragment names.                   *)

GradusRank(g) ==
    CASE g = "SOLLEMNITAS" -> 1
      [] g = "FESTUM" -> 2
      [] g = "MEMORIA" -> 3
      [] g = "MEMORIA_AD_LIBITUM" -> 4
      [] g = "COMMEMORATIO" -> 5
      [] g = "FERIA" -> 6

gradusAtLeast(a, b) == GradusRank(a) <= GradusRank(b)

praecedentiaTemporis(dt, currentTempus, sunday, easter, daysFromEaster) ==
    IF daysFromEaster >= 0 /\ daysFromEaster <= 7 THEN "DIES_OCTAVAE_PASCHAE_2"
    ELSE IF sunday
    THEN CASE currentTempus \in {"ADVENTUS", "QUADRAGESIMA", "PASCHALE"} ->
                "DOMINICA_PRIVILEGIATA_2"
           [] currentTempus = "NATIVITAS" -> "DOMINICA_NATIVITATIS_6"
           [] OTHER -> "DOMINICA_ORDINARII_6"
    ELSE CASE currentTempus = "TRIDUUM" -> "TRIDUUM_1"
           [] currentTempus = "QUADRAGESIMA" ->
                IF getTime(dt) = getTime(addDies(easter, -46)) THEN "FERIA_IV_CINERUM_2"
                ELSE IF daysFromEaster >= -6 /\ daysFromEaster <= -4
                     THEN "FERIA_HEBDOMADAE_SANCTAE_2"
                     ELSE "FERIA_QUADRAGESIMAE_9"
           [] currentTempus = "ADVENTUS" ->
                IF getMonth(dt) = 11 /\ getDate(dt) >= 17 /\ getDate(dt) <= 24
                THEN "FERIA_ADVENTUS_17_24_9" ELSE "FERIA_ADVENTUS_13"
           [] currentTempus = "NATIVITAS" ->
                IF getMonth(dt) = 11 /\ getDate(dt) >= 26 /\ getDate(dt) <= 31
                THEN "DIES_OCTAVAE_NATIVITATIS_9"
                ELSE IF getMonth(dt) = 0 /\ getDate(dt) = 1
                     THEN "DIES_OCTAVAE_NATIVITATIS_9"
                     ELSE "FERIA_NATIVITATIS_13"
           [] currentTempus = "PASCHALE" -> "FERIA_PASCHAE_13"
           [] OTHER -> "FERIA_ORDINARII_14"

\* const easter = pascha(year); const daysFromEaster = round((date - easter) / day)
praecedentiaAbPascha(dt, currentTempus, sunday, easter) ==
    praecedentiaTemporis(dt, currentTempus, sunday, easter, roundDies(dt, easter))

getSeasonalPraecedentia(dt) ==
    praecedentiaAbPascha(dt, tempus(dt), estDominica(dt), pascha(getFullYear(dt)))

\* the transfer Date as a sequence of length 1, or the empty sequence (null)
transferDate(sanctorale, easter, daysFromEaster) ==
    IF /\ sanctorale.id = "annunciation" /\ sanctorale.month = 3 /\ sanctorale.day = 25
       /\ daysFromEaster >= -7 /\ daysFromEaster <= 7
    THEN <<addDies(easter, 8)>>
    ELSE IF /\ sanctorale.id = "joseph_spouse_of_mary"
            /\ sanctorale.month = 3 /\ sanctorale.day = 19
            /\ daysFromEaster >= -7 /\ daysFromEaster <= 0
         THEN <<addDies(easter, -8)>>
         ELSE <<>>

transferAbPascha(sanctorale, dt, easter) ==
    transferDate(sanctorale, easter, roundDies(dt, easter))

getTransferDate(sanctorale, dt) ==
    transferAbPascha(sanctorale, dt, pascha(getFullYear(dt)))

hasPrecedence(a, b) == PraecedentiaValue(a) < PraecedentiaValue(b)

\* The members of the Hora enumeration exercised by the model.
Horae == {"LAU", "MIS-COL"}

getSeasonPath(t) == TempusCodes(t)

getDayPath(day) == DiesCodes(day)

\* id.includes(keyword) for the ids of the listings above
includes(id, keyword) ==
    CASE keyword = "mary" -> id \in {"mary_mother_of_god", "joseph_spouse_of_mary",
                                     "mary_mother_of_the_church"}
      [] keyword = "assumption" -> id = "assumption"
      [] keyword = "immaculate" -> id = "immaculate_conception"
      [] keyword = "apostle" -> id = "peter_and_paul_apostles"
      [] keyword = "martyr" -> id \in {"perpetua_and_felicity_martyrs", "justin_martyr"}
      [] keyword = "bishop" -> id \in {"patrick_bishop", "cyril_of_jerusalem_bishop_doctor"}
      [] keyword = "doctor" -> id = "cyril_of_jerusalem_bishop_doctor"
      [] OTHER -> FALSE

getCommonType(dies) ==
    LET id == dies.id
    IN  IF \E k \in {"mary", "bmv", "mariae", "assumption", "immaculate"} : includes(id, k)
        THEN "bmv"
        ELSE IF \E k \in {"apostle", "apostol"} : includes(id, k) THEN "apostoli"
        ELSE IF includes(id, "martyr") THEN "martyres"
        ELSE IF \E k \in {"bishop", "pope", "papa", "episcop", "doctor"} : includes(id, k)
        THEN "pastores"
        ELSE IF includes(id, "virgin") THEN "virgines"
        ELSE IF \E k \in {"religious", "abbot", "abbat"} : includes(id, k) THEN "religiosi"
        ELSE "sancti"

\* The four names of the day.  fallback, common and seasonal are "" where
\* the code leaves them undefined.
nomina(h, temporale, sanctorale, sanctoraleTransferred, seasonalPraecedentia, seasonPath, seasonalPath, sundaySeasonal) ==
    IF Len(temporale) > 0
    THEN [primary |-> temporale[1].shortCode \o "/" \o h,
          fallback |-> seasonalPath,
          common |-> "",
          seasonal |-> "commune/" \o seasonPath \o "/" \o h]
    ELSE IF Len(sanctorale) > 0 /\ ~sanctoraleTransferred
    THEN IF hasPrecedence(sanctorale[1].praecedentia, seasonalPraecedentia)
         THEN [primary |-> sanctorale[1].shortCode \o "/" \o h,
               fallback |-> "sancti/" \o padStart2(sanctorale[1].month) \o "/"
                               \o padStart2(sanctorale[1].day) \o "/" \o h,
               common |-> "commune/" \o getCommonType(sanctorale[1]) \o "/" \o h,
               seasonal |-> seasonalPath]
         ELSE IF gradusAtLeast(sanctorale[1].gradus, "MEMORIA")
              THEN [primary |-> seasonalPath,
                    fallback |-> sanctorale[1].shortCode \o "/" \o h,
                    common |-> "commune/" \o getCommonType(sanctorale[1]) \o "/" \o h,
                    seasonal |-> sundaySeasonal]
              ELSE [primary |-> seasonalPath,
                    fallback |-> "",
                    common |-> "commune/feria/" \o h,
                    seasonal |-> sundaySeasonal]
    ELSE [primary |-> seasonalPath,
          fallback |-> "",
          common |-> "commune/feria/" \o h,
          seasonal |-> sundaySeasonal]

\* The returned FragmentNames with the Sunday letter as the cycle of every day.
fragmentNamesCyclusDominicalis(h, names, seasonPath, weekStr, dayPath, sunday, cyclusDom, cyclusFer, tempusCode, dayCode) ==
    [primary |-> names.primary,
     fallback |-> names.fallback,
     common |-> names.common,
     seasonal |-> names.seasonal,
     bmdPath |-> seasonPath \o "/" \o weekStr \o "/" \o dayPath \o "/" \o cyclusDom \o "/" \o h,
     eprexCode |-> tempusCode \o weekStr \o dayCode \o "-" \o h,
     lectionary |-> [sunday |-> cyclusDom, weekday |-> cyclusFer]]

\* The returned FragmentNames.
fragmentNames(h, names, seasonPath, weekStr, dayPath, sunday, cyclusDom, cyclusFer, tempusCode, dayCode) ==
    [primary |-> names.primary,
     fallback |-> names.fallback,
     common |-> names.common,
     seasonal |-> names.seasonal,
     bmdPath |-> seasonPath \o "/" \o weekStr \o "/" \o dayPath \o "/"
                    \o (IF sunday THEN cyclusDom ELSE cyclusFer) \o "/" \o h,
     eprexCode |-> tempusCode \o weekStr \o dayCode \o "-" \o h,
     lectionary |-> [sunday |-> cyclusDom, weekday |-> cyclusFer]]

fragmentaDiei(dt, h, currentTempus, week, dayOfWeek, sunday, sanctorale) ==
    fragmentNames(h,
        nomina(h, findTemporale(dt), sanctorale,
               Len(sanctorale) > 0 /\ Len(getTransferDate(sanctorale[1], dt)) > 0,
               getSeasonalPraecedentia(dt),
               getSeasonPath(currentTempus),
               getSeasonPath(currentTempus) \o "/" \o padStart2(week) \o "/"
                   \o getDayPath(dayOfWeek) \o "/" \o h,
               IF sunday
               THEN getSeasonPath(currentTempus) \o "/" \o padStart2(week) \o "/dom/" \o h
               ELSE ""),
        getSeasonPath(currentTempus), padStart2(week), getDayPath(dayOfWeek), sunday,
        cyclusDominicalis(dt), cyclusFerialis(dt),
        TempusCodes(currentTempus), DiesCodes(dayOfWeek))

getFragmentNames(dt, h) ==
    fragmentaDiei(dt, h, tempus(dt), hebdomadaTemporis(dt), diesHebdomadae(dt),
                  estDominica(dt), findSanctoraleCelebration(dt))

-----------------------------------------------------------------------------
(* State machine: a caller builds a Date and applies one operation to it.  *)

NoRes == [nihil |-> TRUE]

\* The feast functions of computus.ts that take only the year.
Festa == {"computusPaschalis", "feriaIVCinerum", "dominicaInPalmis",
          "feriaVInCenaDomini", "feriaVIInPassioneDomini", "sabbatumSanctum",
          "dominicaInOctavaPaschae", "pentecostes", "dominicaIAdventus",
          "baptismaDomini", "trinitas", "corIesu", "christusRex"}

\* The feast functions that also take the observe-on-Sunday flag.
FestaInDominica == {"ascensio", "corpusChristi"}

festum(f, y) ==
    CASE f = "computusPaschalis" -> computusPaschalis(y)
      [] f = "feriaIVCinerum" -> feriaIVCinerum(y)
      [] f = "dominicaInPalmis" -> dominicaInPalmis(y)
      [] f = "feriaVInCenaDomini" -> feriaVInCenaDomini(y)
      [] f = "feriaVIInPassioneDomini" -> feriaVIInPassioneDomini(y)
      [] f = "sabbatumSanctum" -> sabbatumSanctum(y)
      [] f = "dominicaInOctavaPaschae" -> dominicaInOctavaPaschae(y)
      [] f = "pentecostes" -> pentecostes(y)
      [] f = "dominicaIAdventus" -> dominicaIAdventus(y)
      [] f = "baptismaDomini" -> baptismaDomini(y)
      [] f = "trinitas" -> trinitas(y)
      [] f = "corIesu" -> corIesu(y)
      [] f = "christusRex" -> christusRex(y)

festumInDominica(f, y, inDominica) ==
    CASE f = "ascensio" -> ascensio(y, inDominica)
      [] f = "corpusChristi" -> corpusChristi(y, inDominica)

InitComputus ==
    /\ annus \in AnniComputi
    /\ date = NewDate(annus, 0, 1)
    /\ via = "init"
    /\ op = "none"
    /\ hora = "LAU"
    /\ res = NoRes

\* A feast function is called with the year: its Date is the value studied.
Festum(f) ==
    /\ via = "init"
    /\ date' = festum(f, annus)
    /\ via' = f
    /\ op' = "none"
    /\ res' = NoRes
    /\ UNCHANGED <<annus, hora>>

\* ascensio or corpusChristi is called with the year and the flag; via
\* records which call built the Date.
FestumInDominica(f, inDominica) ==
    /\ via = "init"
    /\ date' = festumInDominica(f, annus, inDominica)
    /\ via' = IF inDominica THEN f \o "(true)" ELSE f \o "(false)"
    /\ op' = "none"
    /\ res' = NoRes
    /\ UNCHANGED <<annus, hora>>

\* addDies(pascha(annus), 1): the day after Easter Sunday.
AddDies ==
    /\ via = "computusPaschalis"
    /\ op = "none"
    /\ date' = addDies(date, 1)
    /\ via' = "addDies"
    /\ UNCHANGED <<annus, op, hora, res>>

Tempus ==
    /\ via # "init"
    /\ op = "none"
    /\ op' = "tempus"
    /\ res' = tempus(date)
    /\ UNCHANGED <<annus, date, via, hora>>

Init ==
    /\ annus \in Anni
    /\ date = NewDate(annus, 0, 1)
    /\ via = "init"
    /\ op = "none"
    /\ hora = "LAU"
    /\ res = NoRes

\* new Date(annus, month - 1, day), as dies() builds it from its argument;
\* a day past the end of the month rolls over into the next month.
NewDateOfYear(month, day) ==
    /\ via = "init"
    /\ date' = NewDate(annus, month - 1, day)
    /\ via' = "newDate"
    /\ op' = "none"
    /\ res' = NoRes
    /\ UNCHANGED <<annus, hora>>

ResolvePrecedence ==
    /\ via = "newDate"
    /\ op = "none"
    /\ op' = "resolvePrecedence"
    /\ res' = resolvePrecedence(date)
    /\ UNCHANGED <<annus, date, via, hora>>

GetDiesLiturgicus ==
    /\ via \in {"newDate", "iter"}
    /\ op = "none"
    /\ op' = "getDiesLiturgicus"
    /\ res' = getDiesLiturgicus(date)
    /\ UNCHANGED <<annus, date, via, hora>>

GetFragmentNames(h) ==
    /\ via = "newDate"
    /\ op = "none"
    /\ op' = "getFragmentNames"
    /\ hora' = h
    /\ res' = getFragmentNames(date, h)
    /\ UNCHANGED <<annus, date, via>>

\* The hours of the day at which the clock is read.
HoraeHodie == {10, 15}

\* hodie(): getDiesLiturgicus(new Date()), the clock standing at hour h of
\* the day.
Hodie(h) ==
    /\ via = "newDate"
    /\ op = "none"
    /\ date' = date + h
    /\ via' = "now"
    /\ op' = "hodie"
    /\ res' = getDiesLiturgicus(date')
    /\ UNCHANGED <<annus, hora>>

\* dies(dateString): the string split at '-' and mapped to numbers gives
\* year, month and day; res keeps them with the day returned.
Dies(month, day) ==
    /\ via = "init"
    /\ date' = NewDate(annus, month - 1, day)
    /\ via' = "dateString"
    /\ op' = "dies"
    /\ res' = [dateString |-> <<annus, month, day>>, dies |-> getDiesLiturgicus(date')]
    /\ UNCHANGED <<annus, hora>>

Next ==
    \/ \E month \in 1..12, day \in 1..31 : NewDateOfYear(month, day)
    \/ \E month \in 1..12, day \in 1..31 : Dies(month, day)
    \/ Tempus
    \/ ResolvePrecedence
    \/ GetDiesLiturgicus
    \/ \E h \in Horae : GetFragmentNames(h)
    \/ \E h \in HoraeHodie : Hodie(h)

Spec == Init /\ [][Next]_vars

\* config.ts: the observance variants of the regional presets.
DEFAULT_CONFIG == [ascensio |-> "FERIA_V", corpusChristi |-> "FERIA_V", epiphania |-> "IANUARII_6"]

\* The presets of NATIONAL_CONFIGS the model asks for.
NATIONAL_CONFIGS ==
    [VA |-> [ascensio |-> "FERIA_V", corpusChristi |-> "FERIA_V", epiphania |-> "IANUARII_6"],
     IT |-> [ascensio |-> "DOMINICA", corpusChristi |-> "DOMINICA", epiphania |-> "IANUARII_6"],
     US |-> [ascensio |-> "DOMINICA", corpusChristi |-> "DOMINICA", epiphania |-> "DOMINICA"],
     GB |-> [ascensio |-> "FERIA_V", corpusChristi |-> "DOMINICA", epiphania |-> "DOMINICA"],
     DE |-> [ascensio |-> "FERIA_V", corpusChristi |-> "FERIA_V", epiphania |-> "IANUARII_6"]]

\* The nations asked for; "XX" has no preset.
Nationes == {"VA", "IT", "US", "GB", "DE", "XX"}

getCalendarConfig(nation) ==
    IF nation \in DOMAIN NATIONAL_CONFIGS THEN NATIONAL_CONFIGS[nation] ELSE DEFAULT_CONFIG

\* The caller takes the configuration of a nation and asks for the Baptism
\* of the Lord of the year; baptismaDomini has no parameter for it.
BaptismaDominiRegionis(nation) ==
    /\ via = "init"
    /\ date' = baptismaDomini(annus)
    /\ via' = nation
    /\ op' = "baptismaDomini"
    /\ res' = getCalendarConfig(nation)
    /\ UNCHANGED <<annus, hora>>

\* Date | null: the empty sequence is null.
dominicaIIPostNativitatem(y) ==
    LET dayOfWeek == getDay(NewDate(y, 0, 6))
        daysToSunday == (7 - dayOfWeek) % 7
    IN  IF dayOfWeek = 0 \/ dayOfWeek = 1 \/ dayOfWeek = 6 THEN <<>>
        ELSE IF daysToSunday = 0 THEN <<>>
        ELSE <<NewDate(y, 0, 6 - dayOfWeek)>>

\* dominicaIIPostNativitatem is called with the year; res holds the
\* nullable Date it returns.
DominicaIIPostNativitatem ==
    /\ via = "init"
    /\ via' = "dominicaIIPostNativitatem"
    /\ op' = "dominicaIIPostNativitatem"
    /\ res' = dominicaIIPostNativitatem(annus)
    /\ UNCHANGED <<annus, date, hora>>

NextComputus ==
    \/ \E f \in Festa : Festum(f)
    \/ \E nation \in Nationes : BaptismaDominiRegionis(nation)
    \/ DominicaIIPostNativitatem
    \/ \E f \in FestaInDominica, inDominica \in BOOLEAN : FestumInDominica(f, inDominica)
    \/ AddDies
    \/ Tempus

SpecComputus == InitComputus /\ [][NextComputus]_vars

\* A caller walks the calendar one day at a time from January 1 of a year,
\* resolving each day; res keeps the last resolved day.
InitIter ==
    /\ annus \in Anni
    /\ date = NewDate(annus, 0, 1)
    /\ via = "iter"
    /\ op = "none"
    /\ hora = "LAU"
    /\ res = NoRes

\* addDies(date, 1) after the day has been resolved, within the window.
ProximusDies ==
    /\ via = "iter"
    /\ op = "getDiesLiturgicus"
    /\ getFullYear(addDies(date, 1)) <= AnnusUltimus
    /\ date' = addDies(date, 1)
    /\ annus' = getFullYear(date')
    /\ op' = "none"
    /\ UNCHANGED <<via, hora, res>>

NextIter ==
    \/ GetDiesLiturgicus
    \/ ProximusDies

SpecIter == InitIter /\ [][NextIter]_vars

-----------------------------------------------------------------------------
(* calendar.ts: the calendar range functions.                              *)

\* The longest range walked, in days.
MaxDies == 400

\* One pushed entry: the resolved day, with the Date it was resolved from.
diesInOrdine(dt) == [date |-> dt, dies |-> getDiesLiturgicus(dt)]

\* getCalendarRange whose loop stops before the end date (current < end).
getCalendarRangeExclusa(start, end) ==
    LET n == CHOOSE k \in 0..MaxDies :
                 /\ ~(addDies(start, k) < end)
                 /\ \A j \in 0..(k - 1) : addDies(start, j) < end
    IN  [i \in 1..n |-> diesInOrdine(addDies(start, i - 1))]

\* current = new Date(start); while (current <= end) { push; setDate(+1) }:
\* n is the first pass at which the loop test fails.
getCalendarRange(start, end) ==
    LET n == CHOOSE k \in 0..MaxDies :
                 /\ ~(addDies(start, k) <= end)
                 /\ \A j \in 0..(k - 1) : addDies(start, j) <= end
    IN  [i \in 1..n |-> diesInOrdine(addDies(start, i - 1))]

\* new Date(annus, mensis - 1, 1) to new Date(annus, mensis, 0)
getCalendarMonth(y, mensis) == getCalendarRange(NewDate(y, mensis - 1, 1), NewDate(y, mensis, 0))

getCalendarYear(y) == getCalendarRange(NewDate(y, 0, 1), NewDate(y, 11, 31))

getCalendarLiturgicalYear(y) ==
    getCalendarRange(dominicaIAdventus(y - 1), addDies(dominicaIAdventus(y), -1))

\* The start dates and the signed lengths of the ranges asked for.
InitiaIntervalli == {<<2, 25>>, <<12, 28>>}
LongitudinesIntervalli == -2..8

InitRange ==
    /\ annus \in Anni
    /\ date = NewDate(annus, 0, 1)
    /\ via = "init"
    /\ op = "none"
    /\ hora = "LAU"
    /\ res = NoRes

\* getCalendarRange(start, end): date keeps start, res the end and the list.
GetCalendarRange(md, n) ==
    /\ via = "init"
    /\ date' = NewDate(annus, md[1] - 1, md[2])
    /\ via' = "intervallum"
    /\ op' = "getCalendarRange"
    /\ res' = [end |-> addDies(date', n), result |-> getCalendarRange(date', addDies(date', n))]
    /\ UNCHANGED <<annus, hora>>

GetCalendarMonth(mensis) ==
    /\ via = "init"
    /\ date' = NewDate(annus, mensis - 1, 1)
    /\ via' = ToString(mensis)
    /\ op' = "getCalendarMonth"
    /\ res' = [end |-> NewDate(annus, mensis, 0), result |-> getCalendarMonth(annus, mensis)]
    /\ UNCHANGED <<annus, hora>>

GetCalendarYear ==
    /\ via = "init"
    /\ date' = NewDate(annus, 0, 1)
    /\ via' = "annus"
    /\ op' = "getCalendarYear"
    /\ res' = [end |-> NewDate(annus, 11, 31), result |-> getCalendarYear(annus)]
    /\ UNCHANGED <<annus, hora>>

GetCalendarLiturgicalYear ==
    /\ via = "init"
    /\ date' = dominicaIAdventus(annus - 1)
    /\ via' = "annus"
    /\ op' = "getCalendarLiturgicalYear"
    /\ res' = [end |-> addDies(dominicaIAdventus(annus), -1), result |-> getCalendarLiturgicalYear(annus)]
    /\ UNCHANGED <<annus, hora>>

NextRange ==
    \/ \E md \in InitiaIntervalli, n \in LongitudinesIntervalli : GetCalendarRange(md, n)
    \/ \E mensis \in 1..12 : GetCalendarMonth(mensis)
    \/ GetCalendarYear
    \/ GetCalendarLiturgicalYear

SpecRange == InitRange /\ [][NextRange]_vars

-----------------------------------------------------------------------------
(* Dates in a time zone of the host.  A Date holds an instant; new Date(y,  *)
(* m, d), setDate and the get* readers work on the local wall clock, and    *)
(* getTime gives the instant.  The operators above are those of a host      *)
(* without daylight-saving time; here the zone is a choice of the host and  *)
(* the instant of a local midnight is one hour earlier while daylight-      *)
(* saving time is in force.  The order of local midnights is the order of   *)
(* their instants in every zone, so tempus is as above.                     *)
Zonae == {"UTC", "Europe/Rome", "America/New_York", "Australia/Sydney"}

\* The n-th Sunday of a month, and its last Sunday.
dominicaMensis(y, mIdx, n) == addDies(proximaDominica(NewDate(y, mIdx, 1)), 7 * (n - 1))

dominicaUltima(y, mIdx) == addDies(NewDate(y, mIdx + 1, 0), 0 - getDay(NewDate(y, mIdx + 1, 0)))

\* Whether daylight-saving time is in force at the local midnight dt: the
\* clock changes in the small hours of a Sunday, after its midnight.
tempusAestivum(zona, dt, y) ==
    CASE zona = "Europe/Rome" ->
            dt > dominicaUltima(y, 2) /\ dt <= dominicaUltima(y, 9)
      [] zona = "America/New_York" ->
            dt > dominicaMensis(y, 2, 2) /\ dt <= dominicaMensis(y, 10, 1)
      [] zona = "Australia/Sydney" ->
            dt <= dominicaMensis(y, 3, 1) \/ dt > dominicaMensis(y, 9, 1)
      [] OTHER -> FALSE

\* date.getTime(), in hours, up to the fixed offset of the zone
getTimeZonae(zona, dt) == IF tempusAestivum(zona, dt, getFullYear(dt)) THEN dt - 1 ELSE dt

\* Math.floor((date2.getTime() - date1.getTime()) / oneDay)
diesInterZonae(zona, date1, date2) ==
    (getTimeZonae(zona, date2) - getTimeZonae(zona, date1)) \div HoraeDiei

\* Math.round((a.getTime() - b.getTime()) / oneDay), halves rounded up
roundDiesZonae(zona, a, b) ==
    (2 * (getTimeZonae(zona, a) - getTimeZonae(zona, b)) + HoraeDiei) \div (2 * HoraeDiei)

\* hebdomadaTemporis on a host of the zone
hebdomadaInTemporeZonae(zona, dt, y, currentTempus) ==
    CASE currentTempus = "ADVENTUS" ->
            (diesInterZonae(zona, dominicaIAdventus(y), dt) \div 7) + 1
      [] currentTempus = "NATIVITAS" ->
            (diesInterZonae(zona, nativitas(IF getMonth(dt) >= 11 THEN y ELSE y - 1), dt) \div 7) + 1
      [] currentTempus = "QUADRAGESIMA" ->
            LET daysFromAshWed == diesInterZonae(zona, feriaIVCinerum(y), dt)
            IN  IF daysFromAshWed < 4 THEN 0 ELSE (daysFromAshWed + 3) \div 7
      [] currentTempus = "TRIDUUM" -> 0
      [] currentTempus = "PASCHALE" ->
            (diesInterZonae(zona, pascha(y), dt) \div 7) + 1
      [] OTHER ->
            IF dt < feriaIVCinerum(y)
            THEN (diesInterZonae(zona, baptismaDomini(y), dt) \div 7) + 1
            ELSE LET totalWeeksAfterPentecost ==
                         diesInterZonae(zona, pentecostes(y), dominicaIAdventus(y)) \div 7
                     weeksFromPentecost == diesInterZonae(zona, pentecostes(y), dt) \div 7
                 IN  34 - totalWeeksAfterPentecost + weeksFromPentecost + 1

hebdomadaTemporisZonae(zona, dt) ==
    hebdomadaInTemporeZonae(zona, dt, getFullYear(dt), tempus(dt))

\* getSeasonalPraecedentia on a host of the zone
getSeasonalPraecedentiaZonae(zona, dt, easter) ==
    praecedentiaTemporis(dt, tempus(dt), estDominica(dt), easter, roundDiesZonae(zona, dt, easter))

\* The lengths, in days, of the intervals whose day count is asked for.
LongitudinesZonae == {1, 7, 40, 200}

InitZonae ==
    /\ annus \in Anni
    /\ date = NewDate(annus, 0, 1)
    /\ via = "init"
    /\ op = "none"
    /\ hora = "LAU"
    /\ res = NoRes

\* diesInter(date1, addDies(date1, n)) on a host of the zone, date1 being
\* the first day of a month.
DiesInter(zona, mensis, n) ==
    /\ via = "init"
    /\ date' = NewDate(annus, mensis - 1, 1)
    /\ via' = zona
    /\ op' = "diesInter"
    /\ res' = [date2 |-> addDies(date', n), dies |-> diesInterZonae(zona, date', addDies(date', n))]
    /\ UNCHANGED <<annus, hora>>

\* hebdomadaTemporis(new Date(annus, month - 1, day)) on a host of the zone
HebdomadaTemporis(zona, month, day) ==
    /\ via = "init"
    /\ date' = NewDate(annus, month - 1, day)
    /\ via' = zona
    /\ op' = "hebdomadaTemporis"
    /\ res' = [hebdomada |-> hebdomadaTemporisZonae(zona, date')]
    /\ UNCHANGED <<annus, hora>>

\* getSeasonalPraecedentia(new Date(annus, month - 1, day)) on a host of the
\* zone, with the offset from Easter Sunday it computes.
GetSeasonalPraecedentia(zona, month, day) ==
    /\ via = "init"
    /\ date' = NewDate(annus, month - 1, day)
    /\ via' = zona
    /\ op' = "getSeasonalPraecedentia"
    /\ res' = [daysFromEaster |-> roundDiesZonae(zona, date', pascha(annus)),
               praecedentia |-> getSeasonalPraecedentiaZonae(zona, date', pascha(annus))]
    /\ UNCHANGED <<annus, hora>>

NextZonae ==
    \/ \E zona \in Zonae, mensis \in 1..12, n \in LongitudinesZonae : DiesInter(zona, mensis, n)
    \/ \E zona \in Zonae, month \in 1..12, day \in 1..31 : HebdomadaTemporis(zona, month, day)
    \/ \E zona \in Zonae, month \in 1..12, day \in 1..31 : GetSeasonalPraecedentia(zona, month, day)

SpecZonae == InitZonae /\ [][NextZonae]_vars

-----------------------------------------------------------------------------
(* Claims.                                                                 *)

\* C1: for every year 1583..2499 computusPaschalis returns a date between
\* March 22 and April 25 of that year inclusive, and that date is a Sunday.
C1_PaschaInRange ==
    via = "computusPaschalis" =>
        /\ getFullYear(date) = annus
        /\ \/ (getMonth(date) = 2 /\ getDate(date) >= 22)
           \/ (getMonth(date) = 3 /\ getDate(date) <= 25)
        /\ getDay(date) = 0

\* Easter Sunday of the Gregorian calendar as the Computus tables give it
\* (the full Meeus/Jones/Butcher computation, epact corrections included).
PaschaTabularum(y) ==
    LET a == y % 19
        b == y \div 100
        c == y % 100
        d == b \div 4
        e == b % 4
        f == (b + 8) \div 25
        g == (b - f + 1) \div 3
        h == (19 * a + b - d - g + 15) % 30
        i == c \div 4
        k == c % 4
        l == (32 + 2 * e + 2 * i - h - k) % 7
        m == (a + 11 * h + 22 * l) \div 451
        n == h + l - 7 * m + 114
    IN  [m |-> (n \div 31) - 1, d |-> (n % 31) + 1]

\* C2: for every year 1583..2499 computusPaschalis equals the Gregorian
\* Easter Sunday of the official Computus tables.
C2_PaschaTabulis ==
    via = "computusPaschalis" =>
        /\ getFullYear(date) = annus
        /\ getMonth(date) = PaschaTabularum(annus).m
        /\ getDate(date) = PaschaTabularum(annus).d

ValorDiei(c) == PraecedentiaValue(c.praecedentia)

\* The Sanctorale candidates of a date that are not transferred: those whose
\* date lies more than seven days from Easter.
SanctoraleSuperstes(dt) ==
    LET offset == roundDies(dt, pascha(getFullYear(dt)))
    IN  IF offset >= -7 /\ offset <= 7 THEN <<>> ELSE findSanctoraleCelebration(dt)

\* The least of a non-empty set of numbers.
Minimum(S) == CHOOSE x \in S : \A z \in S : x <= z

\* C5: the primary of getDiesLiturgicus has the minimum precedence value
\* among the Temporale candidate, the non-transferred Sanctorale candidate
\* and the synthesized seasonal/ferial candidate; hence on a Sunday of
\* Advent, Lent or Easter a tier-3 Sanctorale solemnity is never primary.
C5_PrimariaMinima ==
    (op = "getDiesLiturgicus" /\ via = "newDate") =>
        LET candidates == findTemporaleCelebration(date) \o SanctoraleSuperstes(date)
            values == {ValorDiei(candidates[i]) : i \in 1..Len(candidates)}
                          \cup {PraecedentiaValue(getSeasonalPraecedentia(date))}
        IN  /\ PraecedentiaValue(res.praecedentia) = Minimum(values)
            /\ (estDominica(date) /\ res.tempus \in {"ADVENTUS", "QUADRAGESIMA", "PASCHALE"})
                   => ~(res.genus = "SANCTORALE" /\ PraecedentiaValue(res.praecedentia) >= 300)

\* C6 as stated: resolvePrecedence and getDiesLiturgicus both return a
\* non-null primary for every date, matched candidate or not.
C6_PrimariaNonNulla ==
    /\ (op = "resolvePrecedence" /\ via = "newDate") => Len(res) = 1
    /\ (op = "getDiesLiturgicus" /\ via = "newDate") => (res.id # "" /\ res.praecedentia # "")

\* C6 amended: getDiesLiturgicus returns a primary for every date, the
\* ferial candidate being the fallback when neither a Temporale nor a
\* Sanctorale candidate matches; resolvePrecedence returns null exactly when
\* neither matches and a candidate of the date otherwise.
C6_PrimariaVelNull ==
    LET nulla == findTemporaleCelebration(date) = <<>> /\ findSanctoraleCelebration(date) = <<>>
    IN  /\ (op = "resolvePrecedence" /\ via = "newDate") =>
                /\ (res = <<>>) <=> nulla
                /\ Len(res) <= 1
                /\ res # <<>> => res[1].id \in {c[1].id : c \in {findTemporaleCelebration(date),
                                                   findSanctoraleCelebration(date)} \ {<<>>}}
        /\ (op = "getDiesLiturgicus" /\ via = "newDate") =>
                /\ res.id # ""
                /\ res.praecedentia # ""
                /\ nulla => (res.id = getFerial(date).id /\ res.genus = "TEMPORALE")

C6_Witness ==
    /\ op = "getDiesLiturgicus"
    /\ via = "newDate"
    /\ date = NewDate(2025, 6, 15)
    /\ findCelebrations(date) = <<>>
    /\ res.praecedentia = "FERIA_ORDINARII_14"

\* The ids a resolved day shows: primary, commemorations and alternates.
IdsDiei(d) ==
    {d.id} \cup {d.commemoratio[i].id : i \in 1..Len(d.commemoratio)}
           \cup {d.alternativae[i].id : i \in 1..Len(d.alternativae)}

\* C7: a Sanctorale candidate whose date lies within seven days of Easter
\* is transferred and appears nowhere in that date's resolution: not as
\* primary, commemoration or alternate of getDiesLiturgicus, nor as primary,
\* fallback or common of getFragmentNames.
C7_TranslataAbsens ==
    LET s == findSanctoraleCelebration(date)
        offset == roundDies(date, pascha(getFullYear(date)))
        translata == via = "newDate" /\ s # <<>> /\ offset >= -7 /\ offset <= 7
    IN  /\ (op = "getDiesLiturgicus" /\ translata) => s[1].id \notin IdsDiei(res)
        /\ (op = "getFragmentNames" /\ translata) =>
                /\ res.primary # s[1].shortCode \o "/" \o hora
                /\ res.fallback # s[1].shortCode \o "/" \o hora
                /\ res.fallback # "sancti/" \o padStart2(s[1].month) \o "/"
                                      \o padStart2(s[1].day) \o "/" \o hora
                /\ res.common # "commune/" \o getCommonType(s[1]) \o "/" \o hora

\* The six most privileged days of a year.
DiesPrivilegiati(y) ==
    {feriaIVCinerum(y), dominicaInPalmis(y), feriaVInCenaDomini(y),
     feriaVIInPassioneDomini(y), sabbatumSanctum(y), pascha(y)}

\* C8: on Ash Wednesday, Palm Sunday, Holy Thursday, Good Friday, Holy
\* Saturday and Easter Sunday only candidates of precedence value at most
\* 204 appear in the resolved day, as primary, commemoration or alternate.
C8_DiesPrivilegiati ==
    (op = "getDiesLiturgicus" /\ via = "newDate"
        /\ date \in DiesPrivilegiati(getFullYear(date))) =>
        /\ PraecedentiaValue(res.praecedentia) <= 204
        /\ \A i \in 1..Len(res.commemoratio) :
                PraecedentiaValue(res.commemoratio[i].praecedentia) <= 204
        /\ \A i \in 1..Len(res.alternativae) :
                PraecedentiaValue(res.alternativae[i].praecedentia) <= 204

\* Palm Sunday 2035 falls on March 18, the day of an optional memorial,
\* which the resolved day drops.
C8_Witness ==
    /\ op = "getDiesLiturgicus"
    /\ via = "newDate"
    /\ annus = 2035
    /\ date = dominicaInPalmis(annus)
    /\ findSanctoraleCelebration(date) # <<>>
    /\ PraecedentiaValue(findSanctoraleCelebration(date)[1].praecedentia) > 204
    /\ res.id = "palm_sunday"
    /\ res.commemoratio = <<>>
    /\ res.alternativae = <<>>

\* C9: in Advent and Lent a candidate of optional-memorial rank is never
\* the primary celebration, neither of getDiesLiturgicus nor of
\* getFragmentNames.
C9_MemoriaAdLibitum ==
    LET s == findSanctoraleCelebration(date)
        adLibitum == /\ via = "newDate"
                     /\ tempus(date) \in {"ADVENTUS", "QUADRAGESIMA"}
                     /\ s # <<>>
                     /\ s[1].gradus = "MEMORIA_AD_LIBITUM"
    IN  /\ (op = "getDiesLiturgicus" /\ adLibitum) =>
                (res.gradus # "MEMORIA_AD_LIBITUM" /\ res.id # s[1].id)
        /\ (op = "getFragmentNames" /\ adLibitum) =>
                res.primary # s[1].shortCode \o "/" \o hora

\* C10: the primary path of getFragmentNames names the celebration that
\* getDiesLiturgicus reports as primary for the date: the shortCode shape
\* for a listed Temporale or Sanctorale celebration, the seasonal shape for
\* the seasonal candidate.
C10_FragmentaSpeculum ==
    (op = "getFragmentNames" /\ via = "newDate") =>
        LET d == getDiesLiturgicus(date)
            listed == findCelebrations(date)
            named == \E i \in 1..Len(listed) : listed[i].id = d.id
            seasonalPath == getSeasonPath(tempus(date)) \o "/"
                                \o padStart2(hebdomadaTemporis(date)) \o "/"
                                \o getDayPath(diesHebdomadae(date)) \o "/" \o hora
        IN  res.primary = IF named THEN d.shortCode \o "/" \o hora ELSE seasonalPath

\* A number of 0..99 written with exactly two decimal digits.
DuoDigiti(n) == ToString(n \div 10) \o ToString(n % 10)

\* The seasonal path {season}/{week as 2 digits}/{day}/{hour} of a date.
ViaTemporis(dt, h) ==
    TempusCodes(tempus(dt)) \o "/" \o DuoDigiti(hebdomadaTemporis(dt)) \o "/"
        \o DiesCodes(getDay(dt)) \o "/" \o h

\* The types a commune path may name.
CommuniaTypi == {"bmv", "apostoli", "martyres", "pastores", "virgines", "religiosi", "sancti"}

C12_ViaBmdEprex ==
    (op = "getFragmentNames" /\ via = "newDate") =>
        LET week == hebdomadaTemporis(date)
            season == TempusCodes(tempus(date))
            dayCode == DiesCodes(getDay(date))
            cycli == IF getDay(date) = 0 THEN {"A", "B", "C"} ELSE {"I", "II"}
            cyclus == IF getDay(date) = 0 THEN cyclusDominicalis(date)
                      ELSE cyclusFerialis(date)
        IN  /\ week \in 0..99
            /\ cyclus \in cycli
            /\ res.bmdPath = season \o "/" \o DuoDigiti(week) \o "/" \o dayCode \o "/"
                                  \o cyclus \o "/" \o hora
            /\ res.eprexCode = season \o DuoDigiti(week) \o dayCode \o "-" \o hora

\* Tuesday of week 15 of Ordinary Time 2025 at Lauds, weekday cycle I.
C12_Witness ==
    /\ op = "getFragmentNames"
    /\ via = "newDate"
    /\ hora = "LAU"
    /\ date = NewDate(2025, 6, 15)
    /\ res.bmdPath = "ORD/15/3MAR/I/LAU"
    /\ res.eprexCode = "ORD153MAR-LAU"

\* The Sunday cycle and the weekday cycle that follow a given one.
CyclusDominicalisSequens(c) == IF c = "A" THEN "B" ELSE IF c = "B" THEN "C" ELSE "A"

CyclusFerialisSequens(c) == IF c = "I" THEN "II" ELSE "I"

\* A day of the walk is resolved while res still holds the day before.
DiesPostDiem ==
    /\ via = "iter"
    /\ op = "none"
    /\ op' = "getDiesLiturgicus"
    /\ "tempus" \in DOMAIN res

\* C13: the Sunday cycle and the weekday cycle are keyed to the liturgical
\* year: from one day to the next both stay the same, January 1 included,
\* unless the day is the First Sunday of Advent, where the Sunday cycle
\* advances A -> B -> C -> A and the weekday cycle alternates I <-> II; the
\* liturgical year ending in 2025 is C and I.
C13_CycliAnniLiturgici ==
    /\ [][DiesPostDiem =>
             IF date = dominicaIAdventus(getFullYear(date))
             THEN /\ res'.cyclusDominicalis = CyclusDominicalisSequens(res.cyclusDominicalis)
                  /\ res'.cyclusFerialis = CyclusFerialisSequens(res.cyclusFerialis)
             ELSE /\ res'.cyclusDominicalis = res.cyclusDominicalis
                  /\ res'.cyclusFerialis = res.cyclusFerialis]_vars
    /\ []((/\ via = "iter" /\ op = "getDiesLiturgicus"
           /\ date >= dominicaIAdventus(2024) /\ date < dominicaIAdventus(2025)) =>
              (res.cyclusDominicalis = "C" /\ res.cyclusFerialis = "I"))

\* The First Sunday of Advent 2025 opens year A, II.
C13_Witness ==
    /\ via = "iter"
    /\ op = "getDiesLiturgicus"
    /\ date = dominicaIAdventus(2025)
    /\ res.cyclusDominicalis = "A"
    /\ res.cyclusFerialis = "II"

\* C14: the arc of Ordinary Time after Pentecost ends at week 34 whatever
\* its length: Christ the King (the Sunday before the First Sunday of
\* Advent) and the six days after it have week 34, and from one day of the
\* arc to the next the week grows by exactly one on a Sunday and not at all
\* on any other day.
C14_HebdomadaXXXIV ==
    /\ [][(/\ DiesPostDiem
            /\ date > addDies(pentecostes(getFullYear(date)), 1)
            /\ date < dominicaIAdventus(getFullYear(date))) =>
              /\ res.tempus = "ORDINARIUM"
              /\ res'.tempus = "ORDINARIUM"
              /\ res'.hebdomada = res.hebdomada + (IF getDay(date) = 0 THEN 1 ELSE 0)]_vars
    /\ []((/\ via = "iter" /\ op = "getDiesLiturgicus"
           /\ date >= christusRex(getFullYear(date))
           /\ date < dominicaIAdventus(getFullYear(date))) =>
              (res.tempus = "ORDINARIUM" /\ res.hebdomada = 34))

\* Saturday 29 November 2025, the last day before Advent.
C14_Witness ==
    /\ via = "iter"
    /\ op = "getDiesLiturgicus"
    /\ date = addDies(christusRex(2025), 6)
    /\ getDay(date) = 6
    /\ res.hebdomada = 34

\* December 25 on or before a Date.
NataleProximum(dt) ==
    IF dt >= NewDate(getFullYear(dt), 11, 25) THEN NewDate(getFullYear(dt), 11, 25)
    ELSE NewDate(getFullYear(dt) - 1, 11, 25)

\* Whole days from one local midnight to another.
DiesAb(a, b) == LocalDay(b) - LocalDay(a)

MensisDies(y, m) ==
    IF m = 1
    THEN (IF (y % 4 = 0 /\ y % 100 # 0) \/ y % 400 = 0 THEN 29 ELSE 28)
    ELSE IF m \in {3, 5, 8, 10} THEN 30 ELSE 31

\* The day of the year (January 1 = 1) of a Date, month by month.
RECURSIVE DiesMensium(_, _)
DiesMensium(y, m) == IF m = 0 THEN 0 ELSE MensisDies(y, m - 1) + DiesMensium(y, m - 1)

DiesAnni(dt) == DiesMensium(getFullYear(dt), getMonth(dt)) + getDate(dt)

\* The offset from Easter Sunday and the day of the week of each feast.
FestaPaschalia ==
    [feriaIVCinerum |-> <<-46, 3>>, dominicaInPalmis |-> <<-7, 0>>,
     feriaVInCenaDomini |-> <<-3, 4>>, feriaVIInPassioneDomini |-> <<-2, 5>>,
     sabbatumSanctum |-> <<-1, 6>>, dominicaInOctavaPaschae |-> <<7, 0>>,
     pentecostes |-> <<49, 0>>, trinitas |-> <<56, 0>>, corIesu |-> <<68, 5>>]

FestaPaschaliaInDominica ==
    ("ascensio(false)" :> <<39, 4>>) @@ ("ascensio(true)" :> <<42, 0>>)
        @@ ("corpusChristi(false)" :> <<60, 4>>) @@ ("corpusChristi(true)" :> <<63, 0>>)

\* The Date lies the given number of calendar days after Easter Sunday of
\* the year, in the same year, at local midnight, on the given weekday.
PostPascha(dt, y, p) ==
    /\ dt % HoraeDiei = 0
    /\ getFullYear(dt) = y
    /\ DiesAnni(dt) = DiesAnni(pascha(y)) + p[1]
    /\ getDay(dt) = p[2]

\* C17: for every year 1583..2499 each feast counted from Easter is Easter
\* Sunday of the year plus its offset, across month boundaries: Ash
\* Wednesday -46 (a Wednesday), Palm Sunday -7, Holy Thursday -3, Good
\* Friday -2, Holy Saturday -1, Divine Mercy Sunday +7, Pentecost +49 (a
\* Sunday), Trinity +56, Sacred Heart +68; Ascension and Corpus Christi are
\* Easter +39 and +60 (Thursdays) with the flag false and the following
\* Sundays Easter +42 and +63 with the flag true; moving a Sunday to the
\* next Sunday leaves it where it is.
C17_FestaPaschalia ==
    /\ via \in DOMAIN FestaPaschalia => PostPascha(date, annus, FestaPaschalia[via])
    /\ via \in DOMAIN FestaPaschaliaInDominica =>
           PostPascha(date, annus, FestaPaschaliaInDominica[via])
    /\ (via \in DOMAIN FestaPaschalia /\ getDay(date) = 0) => proximaDominica(date) = date

\* The Ascension of 2025 observed on Sunday 1 June, Easter being 20 April.
C17_Witness ==
    /\ via = "ascensio(true)"
    /\ annus = 2025
    /\ getMonth(date) = 5
    /\ getDate(date) = 1
    /\ getDay(date) = 0

\* The Sundays, counted in weeks from the given Sunday, that fall in Advent.
DominicaeAdventus(dt) == {k \in -1..5 : tempus(addDies(dt, 7 * k)) = "ADVENTUS"}

\* C18: for every year the first Sunday of Advent is a Sunday 22 to 28 days
\* before December 25 of the year, that is from November 27 to December 3,
\* it is exactly 28 days before December 25 when December 25 is a Sunday,
\* and exactly four Sundays lie in Advent.
C18_DominicaIAdventus ==
    via = "dominicaIAdventus" =>
        /\ getDay(date) = 0
        /\ date % HoraeDiei = 0
        /\ DiesAb(date, nativitas(annus)) \in 22..28
        /\ getFullYear(date) = annus
        /\ \/ (getMonth(date) = 10 /\ getDate(date) \in 27..30)
           \/ (getMonth(date) = 11 /\ getDate(date) \in 1..3)
        /\ getDay(nativitas(annus)) = 0 => DiesAb(date, nativitas(annus)) = 28
        /\ DominicaeAdventus(date) = 0..3
        /\ Cardinality({k \in 0..5 : addDies(date, 7 * k) < nativitas(annus)}) = 4

\* 2022, when December 25 is a Sunday and Advent begins on November 27.
C18_Witness ==
    /\ via = "dominicaIAdventus"
    /\ annus = 2022
    /\ getDay(nativitas(annus)) = 0
    /\ getMonth(date) = 10
    /\ getDate(date) = 27

\* Local midnight of the calendar day of a Date.
MediaNox(dt) == LocalDay(dt) * HoraeDiei

\* The season, week, cycles and primary celebration of a resolved day.
SummaDiei(d) == <<d.tempus, d.hebdomada, d.cyclusDominicalis, d.cyclusFerialis, d.id>>

\* C19: resolution looks at the calendar day only: the day hodie() resolves
\* from the current time has the same season, week, cycles and primary
\* celebration as the day resolved from midnight of the same calendar day.
C19_ResolutioDiei ==
    op = "hodie" => SummaDiei(res) = SummaDiei(getDiesLiturgicus(MediaNox(date)))

\* The changes of season along the cycle of the liturgical year.
CursusTemporum ==
    {<<"ADVENTUS", "NATIVITAS">>, <<"NATIVITAS", "ORDINARIUM">>,
     <<"ORDINARIUM", "QUADRAGESIMA">>, <<"QUADRAGESIMA", "TRIDUUM">>,
     <<"TRIDUUM", "PASCHALE">>, <<"PASCHALE", "ORDINARIUM">>,
     <<"ORDINARIUM", "ADVENTUS">>}

\* The members of a finite set of numbers in increasing order.
InOrdine(K) == [i \in 1..Cardinality(K) |-> CHOOSE k \in K : Cardinality({j \in K : j < k}) = i - 1]

\* The seasons of a sequence of days, a run of days of one season counted once.
TemporaMutata(t, initia) == [i \in DOMAIN initia |-> t[initia[i]]]

TemporaDierum(t) == TemporaMutata(t, InOrdine({k \in DOMAIN t : k = 1 \/ t[k] # t[k - 1]}))

\* The seasons met day by day from dt up to (not including) finis.
TemporaPerDies(dt, finis) == TemporaDierum([k \in 1..DiesAb(dt, finis) |-> tempus(addDies(dt, k - 1))])

IdsOf(s) == {s[i].id : i \in DOMAIN s}

\* The candidates among all of a date that remain once the first is taken.
ReliquaeInter(all) == {all[i] : i \in 2..Len(all)}

Reliquae(dt) == ReliquaeInter(findCelebrations(dt))

\* C21: commemorations and alternates of a resolved day come only from the
\* candidates that remain after the primary is chosen: the primary is in
\* neither list, the alternates are exactly the remaining candidates of
\* optional-memorial rank, and every commemoration is a remaining candidate
\* of precedence value below 1200.
C21_CommemoratioAlternativae ==
    (op = "getDiesLiturgicus" /\ via = "newDate") =>
        /\ res.id \notin IdsOf(res.commemoratio)
        /\ res.id \notin IdsOf(res.alternativae)
        /\ IdsOf(res.alternativae) =
               {c.id : c \in {x \in Reliquae(date) : x.gradus = "MEMORIA_AD_LIBITUM"}}
        /\ \A i \in DOMAIN res.commemoratio :
               \E c \in Reliquae(date) :
                   /\ c.id = res.commemoratio[i].id
                   /\ PraecedentiaValue(c.praecedentia) < 1200

\* The calendar days from one Date to another, by their day numbers.
DiesIntervalli(start, end) == LocalDay(start)..LocalDay(end)

\* The list holds exactly one entry for each calendar day from start to end,
\* in ascending order without gap or duplicate, each the day resolved from
\* its own date.
UnusPerDiem(result, start, end) ==
    /\ Len(result) = Cardinality(DiesIntervalli(start, end))
    /\ \A i \in DOMAIN result :
           /\ LocalDay(result[i].date) = LocalDay(start) + i - 1
           /\ result[i].dies = getDiesLiturgicus(result[i].date)

\* C22: getCalendarRange(start, end) returns one resolved day for each
\* calendar date from start to end inclusive, in ascending order with no gap
\* and no duplicate, and the empty list when start is after end;
\* getCalendarMonth and getCalendarYear return one entry per day of the
\* month or of the civil year (365 or 366); getCalendarLiturgicalYear(y)
\* runs from the First Sunday of Advent of y - 1 to the day before the First
\* Sunday of Advent of y: it starts in Advent, ends on a Saturday and covers
\* a whole number of weeks.
C22_IntervallaCalendarii ==
    /\ op \in {"getCalendarRange", "getCalendarMonth", "getCalendarYear",
                "getCalendarLiturgicalYear"} =>
           /\ UnusPerDiem(res.result, date, res.end)
           /\ date > res.end => res.result = <<>>
    /\ op = "getCalendarMonth" =>
           /\ Len(res.result) = MensisDies(annus, getMonth(date))
           /\ \A i \in DOMAIN res.result :
                  /\ getFullYear(res.result[i].date) = annus
                  /\ ToString(getMonth(res.result[i].date) + 1) = via
                  /\ getDate(res.result[i].date) = i
    /\ op = "getCalendarYear" =>
           /\ Len(res.result) = DiesMensium(annus, 12)
           /\ Len(res.result) \in {365, 366}
           /\ \A i \in DOMAIN res.result : getFullYear(res.result[i].date) = annus
    /\ op = "getCalendarLiturgicalYear" =>
           /\ date = dominicaIAdventus(annus - 1)
           /\ res.end = addDies(dominicaIAdventus(annus), -1)
           /\ res.result[1].dies.tempus = "ADVENTUS"
           /\ getDay(res.result[Len(res.result)].date) = 6
           /\ Len(res.result) % 7 = 0

\* The liturgical year 2025: 30 November 2024 is not yet in it, the range
\* runs from Sunday 1 December 2024 to Saturday 29 November 2025, 52 weeks.
C22_Witness ==
    /\ op = "getCalendarLiturgicalYear"
    /\ annus = 2025
    /\ Len(res.result) = 364
    /\ res.result[1].date = NewDate(2024, 11, 1)
    /\ res.result[364].date = NewDate(2025, 10, 29)

\* The (year, month 1..12, day) triple names a day of the Gregorian calendar.
DiesValidus(ymd) == ymd[2] \in 1..12 /\ ymd[3] \in 1..MensisDies(ymd[1], ymd[2] - 1)

\* C23: an invalid calendar date handed to dies(), such as February 30 or
\* February 29 of a year that is not a leap year, is never turned into
\* another date and resolved: no resolved day is returned for it.
C23_DiesInvalidus ==
    (op = "dies" /\ ~DiesValidus(res.dateString)) => "dies" \notin DOMAIN res

\* The precedence values of a sequence of candidates.
ValoresPraecedentiae(s) == [i \in DOMAIN s |-> PraecedentiaValue(s[i].praecedentia)]

\* Two entries of a sequence of values are equal.
ValoresAequales(v) == \E i \in DOMAIN v : \E j \in DOMAIN v : i < j /\ v[i] = v[j]

\* Two of the candidates findCelebrations gathers for the date tie.
CelebrationesAequales(dt) ==
    ValoresAequales(ValoresPraecedentiae(findTemporaleCelebration(dt) \o findSanctoraleCelebration(dt)))

\* Two of the candidates getFragmentNames weighs for the date tie: the
\* Temporale entry, the Sanctorale entry and the seasonal candidate.
FragmentaAequalia(dt) ==
    ValoresAequales(ValoresPraecedentiae(findTemporaleCelebration(dt) \o findSanctoraleCelebration(dt))
                        \o <<PraecedentiaValue(getSeasonalPraecedentia(dt))>>)

\* C24: when two candidates of a date have equal precedence values the
\* resolver flags the tie and picks neither as primary: getDiesLiturgicus
\* returns no primary celebration and getFragmentNames no primary path.
C24_PraecedentiaAequalis ==
    /\ (via = "newDate" /\ op = "getDiesLiturgicus" /\ CelebrationesAequales(date)) =>
           "id" \notin DOMAIN res
    /\ (via = "newDate" /\ op = "getFragmentNames" /\ FragmentaAequalia(date)) =>
           "primary" \notin DOMAIN res

\* C25: the Epiphany variant of the regional configuration determines the
\* Baptism of the Lord: with Epiphany on January 6 it is the following
\* Sunday (January 7 to 13), and with Epiphany moved to a Sunday that falls
\* on January 7 or 8 it is the next day, a Monday.
C25_EpiphaniaRegionis ==
    op = "baptismaDomini" =>
        IF res.epiphania = "IANUARII_6"
        THEN /\ getDay(date) = 0
             /\ getFullYear(date) = annus /\ getMonth(date) = 0 /\ getDate(date) \in 7..13
        ELSE getDate(epiphania(annus, FALSE)) >= 7 =>
                 /\ date = addDies(epiphania(annus, FALSE), 1)
                 /\ getDay(date) = 1

\* The season and day segments of the date from the canonical code tables.
SegmentumTemporis(dt) == TempusCodes(tempus(dt))
SegmentumDiei(dt) == DiesCodes(getDay(dt))

\* C26: every output string that embeds a season or a day of the week takes
\* the season segment from the season code table (ORD, ADV, NAT, QUA, TRI,
\* PAS) and the day segment from the day code table (1DOM .. 7SAB): the
\* seasonal path, its Sunday variant, bmdPath and eprexCode of
\* getFragmentNames, the titleCode of getDiesLiturgicus and the code of the
\* ferial day it synthesizes.
C26_TabulaeCanonicae ==
    /\ (op = "getFragmentNames" /\ via = "newDate") =>
           LET week == DuoDigiti(hebdomadaTemporis(date))
               cyclus == IF getDay(date) = 0 THEN cyclusDominicalis(date)
                         ELSE cyclusFerialis(date)
           IN  /\ res.bmdPath = SegmentumTemporis(date) \o "/" \o week \o "/"
                                     \o SegmentumDiei(date) \o "/" \o cyclus \o "/" \o hora
               /\ res.eprexCode = SegmentumTemporis(date) \o week \o SegmentumDiei(date)
                                       \o "-" \o hora
               /\ (res.primary = ViaTemporis(date, hora) /\ estDominica(date)) =>
                      res.seasonal = SegmentumTemporis(date) \o "/" \o week \o "/"
                                         \o SegmentumDiei(date) \o "/" \o hora
    /\ (op = "getDiesLiturgicus" /\ via = "newDate") =>
           LET week == DuoDigiti(hebdomadaTemporis(date))
           IN  /\ res.titleCode = "TIT;" \o SegmentumTemporis(date) \o ";ST" \o week \o ";"
                                       \o SegmentumDiei(date) \o ";Y-"
                                       \o cyclusDominicalis(date) \o cyclusFerialis(date)
               /\ res.id = getFerial(date).id =>
                      getFerial(date).code = SegmentumTemporis(date) \o week \o SegmentumDiei(date)

\* C27: the week within the season reported for a date, in the field
\* hebdomada and in the ST part of the titleCode, is between 1 and 34.
C27_HebdomadaInter1Et34 ==
    (op = "getDiesLiturgicus" /\ via = "newDate") =>
        /\ res.hebdomada \in 1..34
        /\ \E nn \in 1..34 :
               res.titleCode = "TIT;" \o TempusCodes(res.tempus) \o ";ST" \o DuoDigiti(nn) \o ";"
                                   \o DiesCodes(res.dies) \o ";Y-"
                                   \o res.cyclusDominicalis \o res.cyclusFerialis

\* The tier (1..14) of a precedence level.
Gradatio(p) == PraecedentiaValue(p) \div 100

\* The tiers the table of liturgical days gives the seasonal candidate of
\* a date whose season is t and whose distance from Easter Sunday is ab.
GradationesTemporis(dt, t, ab) ==
    IF t = "TRIDUUM" THEN {1}
    ELSE IF \/ (getDay(dt) = 0 /\ t \in {"ADVENTUS", "QUADRAGESIMA", "PASCHALE"})
            \/ ab = -46
            \/ ab \in -6..-4
            \/ ab \in 1..7
         THEN {2}
    ELSE IF getDay(dt) = 0 THEN {6}
    ELSE IF \/ (t = "ADVENTUS" /\ getMonth(dt) = 11 /\ getDate(dt) \in 17..24)
            \/ (t = "NATIVITAS" /\ getMonth(dt) = 11 /\ getDate(dt) \in 26..31)
            \/ (t = "NATIVITAS" /\ getMonth(dt) = 0 /\ getDate(dt) = 1)
            \/ t = "QUADRAGESIMA"
         THEN {9}
    ELSE {13, 14}

\* C28: the seasonal candidate of a date has the tier the table gives for
\* its season, Sunday or weekday, and special window, and getFerial and
\* getSeasonalPraecedentia assign it the same precedence level.
C28_PraecedentiaTemporis ==
    (op = "getDiesLiturgicus" /\ via = "newDate") =>
        /\ getFerial(date).praecedentia = getSeasonalPraecedentia(date)
        /\ Gradatio(getSeasonalPraecedentia(date))
               \in GradationesTemporis(date, tempus(date), DiesAb(pascha(annus), date))
        /\ Gradatio(getFerial(date).praecedentia)
               \in GradationesTemporis(date, tempus(date), DiesAb(pascha(annus), date))

\* The Sundays that fall on January 2 to 5 of the year.
DominicaeIanuarii2Ad5(y) ==
    {NewDate(y, 0, d) : d \in {e \in 2..5 : getDay(NewDate(y, 0, e)) = 0}}

\* C29: dominicaIIPostNativitatem returns the Sunday that falls on January
\* 2 to 5 of the year when there is one, and null exactly when there is
\* none.
C29_DominicaIIPostNativitatem ==
    op = "dominicaIIPostNativitatem" =>
        IF DominicaeIanuarii2Ad5(annus) = {}
        THEN res = <<>>
        ELSE Len(res) = 1 /\ res[1] \in DominicaeIanuarii2Ad5(annus)

\* C30: on a host with daylight-saving time diesInter is the number of
\* calendar days between its two dates, the week of the season is the one
\* counted in calendar days, and the offset from Easter Sunday used for
\* precedence is the number of calendar days from Easter Sunday.
C30_DiesSineHoraAestiva ==
    /\ op = "diesInter" => res.dies = DiesAb(date, res.date2)
    /\ op = "hebdomadaTemporis" => res.hebdomada = hebdomadaTemporis(date)
    /\ op = "getSeasonalPraecedentia" =>
           /\ res.daysFromEaster = DiesAb(pascha(annus), date)
           /\ res.praecedentia = getSeasonalPraecedentia(date)

====
